---- MODULE Spec2Model ----
(***************************************************************************)
(* A model of the text plagiarism checker of src/3123004203/main.py.       *)
(*                                                                         *)
(* A text is a sequence of characters; a character is its Unicode code     *)
(* point.  A float is an IEEE-754 binary64 number, kept as sign, 53-bit    *)
(* significand and exponent, and every float operation rounds to nearest,  *)
(* ties to even, as CPython's does.                                        *)
(***************************************************************************)
EXTENDS Integers, Sequences, FiniteSets, TLC

VARIABLES
    \* the command line, the files and what the process leaves behind
    argv_len, source_file, check_file, output_file, stdout, exit_code,
    \* who called calculate_similarity, where it is, and its arguments
    caller, pc, cosine_weight, edit_distance_weight,
    \* the locals of calculate_similarity
    raw_text1, raw_text2, processed_text1, processed_text2,
    text1_words, text2_words, vocabulary, vector1, vector2,
    cosine_similarity, edit_similarity, final_similarity,
    \* the exception in flight and the functions called so far
    exception, calls,
    \* preprocess_text applied to one text
    pt_text, pt_result, pt_done,
    \* text_to_vector applied to a token sequence and a vocabulary
    tv_words, tv_vocabulary, tv_result, tv_done,
    \* calculate_edit_distance_similarity applied to two texts
    ed_text1, ed_text2, ed_result, ed_done,
    \* calculate_cosine_similarity applied to two vectors
    cs_vec1, cs_vec2, cs_result, cs_done

env_vars == <<argv_len, source_file, check_file, output_file, stdout, exit_code>>
call_vars == <<caller, pc, cosine_weight, edit_distance_weight>>
local_vars ==
    <<raw_text1, raw_text2, processed_text1, processed_text2, text1_words,
      text2_words, vocabulary, vector1, vector2, cosine_similarity,
      edit_similarity, final_similarity>>
flow_vars == <<exception, calls>>
pt_vars == <<pt_text, pt_result, pt_done>>
tv_vars == <<tv_words, tv_vocabulary, tv_result, tv_done>>
ed_vars == <<ed_text1, ed_text2, ed_result, ed_done>>
cs_vars == <<cs_vec1, cs_vec2, cs_result, cs_done>>
program_vars == <<env_vars, call_vars, local_vars, flow_vars>>
vars == <<program_vars, pt_vars, tv_vars, ed_vars, cs_vars>>

(***************************************************************************)
(* Characters                                                              *)
(***************************************************************************)
SPACE == 32
NEWLINE == 10
FULLWIDTH_COMMA == 65292
WEN == 25991
BEN == 26412
DE == 30340

\* What the pattern \s matches in a str pattern (Unicode whitespace).
IsSpace(c) ==
    \/ c \in {9, 10, 11, 12, 13, 28, 29, 30, 31, 32, 133, 160, 5760}
    \/ c \in 8192..8202
    \/ c \in {8232, 8233, 8239, 8287, 12288}

\* What the pattern \w matches, on the characters the model uses: ASCII
\* letters and digits, the underscore and the CJK unified ideographs.
IsWord(c) ==
    \/ c \in 48..57
    \/ c \in 65..90
    \/ c \in 97..122
    \/ c = 95
    \/ c \in 19968..40959

\* The thirteen characters of the stop-word pattern, U+7684 (de) first.
StopWords ==
    {30340, 20102, 26159, 24456, 25105, 26377, 21644, 20063, 21543, 21834,
     20320, 20182, 22905}

STOPWORD_THRESHOLD == 800

(***************************************************************************)
(* Natural numbers of any size: the limbs, least significant first, with   *)
(* no leading zero limb.  TLC's own integers stop at 2^31.                 *)
(***************************************************************************)
LimbBits == 15
Base == 2^15

RECURSIVE BigTrim(_)
BigTrim(a) ==
    IF a = <<>> THEN a
    ELSE IF a[Len(a)] = 0 THEN BigTrim(SubSeq(a, 1, Len(a) - 1))
    ELSE a

RECURSIVE BigFromInt(_)
BigFromInt(n) == IF n = 0 THEN <<>> ELSE <<n % Base>> \o BigFromInt(n \div Base)

RECURSIVE BigToInt(_)
BigToInt(a) == IF a = <<>> THEN 0 ELSE Head(a) + Base * BigToInt(Tail(a))

RECURSIVE BigAddCarry(_, _, _)
BigAddCarry(a, b, carry) ==
    IF a = <<>> /\ b = <<>> THEN (IF carry = 0 THEN <<>> ELSE <<carry>>)
    ELSE LET x == IF a = <<>> THEN 0 ELSE Head(a)
             y == IF b = <<>> THEN 0 ELSE Head(b)
             s == x + y + carry
         IN  <<s % Base>> \o
             BigAddCarry(IF a = <<>> THEN a ELSE Tail(a),
                         IF b = <<>> THEN b ELSE Tail(b), s \div Base)

BigAdd(a, b) == BigAddCarry(a, b, 0)

RECURSIVE BigSubBorrow(_, _, _)
BigSubBorrow(a, b, borrow) ==
    IF a = <<>> THEN <<>>
    ELSE LET y == IF b = <<>> THEN 0 ELSE Head(b)
             d == Head(a) - y - borrow
         IN  <<d % Base>> \o
             BigSubBorrow(Tail(a), IF b = <<>> THEN b ELSE Tail(b),
                          IF d < 0 THEN 1 ELSE 0)

\* a - b, for a >= b
BigSub(a, b) == BigTrim(BigSubBorrow(a, b, 0))

RECURSIVE BigLessFrom(_, _, _)
BigLessFrom(a, b, i) ==
    IF i = 0 THEN FALSE
    ELSE IF a[i] # b[i] THEN a[i] < b[i]
    ELSE BigLessFrom(a, b, i - 1)

BigLess(a, b) ==
    IF Len(a) # Len(b) THEN Len(a) < Len(b) ELSE BigLessFrom(a, b, Len(a))

BigLeq(a, b) == ~BigLess(b, a)

RECURSIVE BigMulLimb(_, _, _)
BigMulLimb(a, d, carry) ==
    IF a = <<>> THEN (IF carry = 0 THEN <<>> ELSE <<carry>>)
    ELSE LET p == Head(a) * d + carry
         IN  <<p % Base>> \o BigMulLimb(Tail(a), d, p \div Base)

RECURSIVE BigMulRaw(_, _)
BigMulRaw(a, b) ==
    IF b = <<>> THEN <<>>
    ELSE BigAdd(BigMulLimb(a, Head(b), 0), <<0>> \o BigMulRaw(a, Tail(b)))

BigMul(a, b) == BigTrim(BigMulRaw(a, b))

\* 2^k
BigPow2(k) ==
    [i \in 1..(k \div LimbBits + 1) |->
        IF i = k \div LimbBits + 1 THEN 2^(k % LimbBits) ELSE 0]

\* a * 2^k
BigShl(a, k) == BigMul(a, BigPow2(k))

\* floor(a / 2^k)
BigShr(a, k) ==
    LET q == k \div LimbBits
        r == k % LimbBits
        n == Len(a) - q
        limb(i) == IF i <= Len(a) THEN a[i] ELSE 0
    IN  IF n <= 0 THEN <<>>
        ELSE BigTrim([i \in 1..n |->
                 (limb(i + q) \div 2^r) + (limb(i + q + 1) % 2^r) * 2^(LimbBits - r)])

BigIsOdd(a) == a # <<>> /\ a[1] % 2 = 1

\* The bits of a limb: 0 for 0, else floor(log2 x) + 1.
LimbBitLen(x) ==
    IF x = 0 THEN 0 ELSE CHOOSE k \in 1..LimbBits : 2^(k - 1) <= x /\ x < 2^k

\* The number of bits of a: 0 for 0, else floor(log2 a) + 1.
BigBitLen(a) ==
    IF a = <<>> THEN 0
    ELSE LimbBits * (Len(a) - 1) + LimbBitLen(a[Len(a)])

\* One digit of a long division: the largest q with q * d <= r, for
\* r < d * Base.  The estimate from the leading limbs is never too small,
\* and at most 2 too large when d's leading limb is Base / 2 or more.
RECURSIVE BigDigitFix(_, _, _)
BigDigitFix(r, d, q) ==
    IF BigLess(r, BigTrim(BigMulLimb(d, q, 0))) THEN BigDigitFix(r, d, q - 1) ELSE q

BigDigit(r, d) ==
    IF BigLess(r, d) THEN 0
    ELSE LET n == Len(d)
             num == (IF Len(r) > n THEN r[n + 1] * Base ELSE 0) + r[n]
             est == num \div d[n]
         IN  BigDigitFix(r, d, IF est > Base - 1 THEN Base - 1 ELSE est)

\* <<quotient, remainder>> of the number made of limbs i.. of a, by d
RECURSIVE BigDivRem(_, _, _)
BigDivRem(a, d, i) ==
    IF i > Len(a) THEN <<<<>>, <<>>>>
    ELSE LET hi == BigDivRem(a, d, i + 1)
             r == BigTrim(<<a[i]>> \o hi[2])
             q == BigDigit(r, d)
         IN  <<<<q>> \o hi[1], BigSub(r, BigMulLimb(d, q, 0))>>

\* floor(a / d), for d # 0: both are first scaled to fill d's leading limb.
BigDiv(a, d) ==
    LET s == 2^(LimbBits - LimbBitLen(d[Len(d)]))
    IN  BigTrim(BigDivRem(BigMulLimb(a, s, 0), BigMulLimb(d, s, 0), 1)[1])

\* floor(sqrt(a)): Newton's iteration from above, until it stops falling.
RECURSIVE BigSqrtFrom(_, _)
BigSqrtFrom(a, x) ==
    LET y == BigShr(BigAdd(x, BigDiv(a, x)), 1)
    IN  IF BigLess(y, x) THEN BigSqrtFrom(a, y) ELSE x

BigSqrt(a) ==
    IF a = <<>> THEN <<>> ELSE BigSqrtFrom(a, BigPow2((BigBitLen(a) + 1) \div 2))

(***************************************************************************)
(* Floats: sgn * man * 2^exp with 2^52 <= man < 2^53, or zero.  The        *)
(* numbers of the program stay far from overflow and from the subnormals.  *)
(***************************************************************************)
MANT_DIG == 53

FZero == [sgn |-> 1, man |-> <<>>, exp |-> 0]

\* The float nearest to sgn * (m * 2^e), or, with sticky, to a value just
\* above m * 2^e in magnitude; ties go to the even significand.
FRound(sgn, m, e, sticky) ==
    LET len == BigBitLen(m)
    IN  IF m = <<>> THEN FZero
        ELSE IF len <= MANT_DIG
        THEN [sgn |-> sgn, man |-> BigShl(m, MANT_DIG - len),
              exp |-> e - (MANT_DIG - len)]
        ELSE LET sh == len - MANT_DIG
                 q == BigShr(m, sh)
                 rem == BigSub(m, BigShl(q, sh))
                 half == BigPow2(sh - 1)
                 up == \/ BigLess(half, rem)
                       \/ rem = half /\ (sticky \/ BigIsOdd(q))
                 q2 == IF up THEN BigAdd(q, <<1>>) ELSE q
             IN  IF BigBitLen(q2) > MANT_DIG
                 THEN [sgn |-> sgn, man |-> BigPow2(MANT_DIG - 1), exp |-> e + sh + 1]
                 ELSE [sgn |-> sgn, man |-> q2, exp |-> e + sh]

\* float(n), for an int n
FFromInt(n) ==
    IF n < 0 THEN FRound(-1, BigFromInt(-n), 0, FALSE)
    ELSE FRound(1, BigFromInt(n), 0, FALSE)

FNeg(x) == IF x.man = <<>> THEN x ELSE [x EXCEPT !.sgn = -x.sgn]

FMul(x, y) == FRound(x.sgn * y.sgn, BigMul(x.man, y.man), x.exp + y.exp, FALSE)

FAdd(x, y) ==
    IF x.man = <<>> THEN y
    ELSE IF y.man = <<>> THEN x
    ELSE LET e == IF x.exp < y.exp THEN x.exp ELSE y.exp
             a == BigShl(x.man, x.exp - e)
             b == BigShl(y.man, y.exp - e)
         IN  IF x.sgn = y.sgn THEN FRound(x.sgn, BigAdd(a, b), e, FALSE)
             ELSE IF BigLess(a, b) THEN FRound(y.sgn, BigSub(b, a), e, FALSE)
             ELSE FRound(x.sgn, BigSub(a, b), e, FALSE)

FSub(x, y) == FAdd(x, FNeg(y))

\* x / y, for y # 0: the quotient of the significands to 57 or 58 bits, and
\* whether anything is left.
FDiv(x, y) ==
    LET a == BigShl(x.man, MANT_DIG + 4)
        q == BigDiv(a, y.man)
    IN  FRound(x.sgn * y.sgn, q, x.exp - y.exp - (MANT_DIG + 4),
               BigMul(q, y.man) # a)

\* x ** 0.5, for x >= 0: the root of the significand scaled to an even
\* exponent and to 110 bits or more.
FSqrt(x) ==
    LET k == (MANT_DIG + 4) + ((x.exp - (MANT_DIG + 4)) % 2)
        a == BigShl(x.man, k)
        r == BigSqrt(a)
    IN  FRound(1, r, (x.exp - k) \div 2, BigMul(r, r) # a)

FLess(x, y) ==
    LET d == FSub(x, y) IN d.man # <<>> /\ d.sgn = -1

FLeq(x, y) == ~FLess(y, x)

FOne == FFromInt(1)

\* 10^n as a natural number
RECURSIVE BigPow10(_)
BigPow10(n) == IF n = 0 THEN <<1>> ELSE BigTrim(BigMulLimb(BigPow10(n - 1), 10, 0))

\* format(x, ".<digits>f"), as the integer x * 10^digits rounded to nearest,
\* ties to even: ".4f" of 0.3 is 3000, shown as 0.3000.
FFormat(x, digits) ==
    LET n == BigMul(x.man, BigPow10(digits))
    IN  IF x.exp >= 0 THEN x.sgn * BigToInt(BigShl(n, x.exp))
        ELSE LET sh == -x.exp
                 q == BigShr(n, sh)
                 rem == BigSub(n, BigShl(q, sh))
                 half == BigPow2(sh - 1)
                 up == BigLess(half, rem) \/ (rem = half /\ BigIsOdd(q))
             IN  x.sgn * BigToInt(IF up THEN BigAdd(q, <<1>>) ELSE q)

(***************************************************************************)
(* preprocess_text                                                         *)
(***************************************************************************)
\* re.sub(r'[^\w\s]', '', text)
RemovePunctuation(text) == SelectSeq(text, LAMBDA c : IsWord(c) \/ IsSpace(c))

\* re.sub(r'\s+', ' ', text): every maximal run of whitespace becomes one
\* space.
CollapseWhitespace(text) ==
    LET tagged == [i \in 1..Len(text) |->
                     [c |-> text[i],
                      first |-> i = 1 \/ ~IsSpace(text[i - 1])]]
        kept == SelectSeq(tagged, LAMBDA p : ~IsSpace(p.c) \/ p.first)
    IN  [i \in 1..Len(kept) |-> IF IsSpace(kept[i].c) THEN SPACE ELSE kept[i].c]

\* str.strip()
Strip(text) ==
    LET n == Len(text)
        lead == Cardinality({i \in 1..n : \A j \in 1..i : IsSpace(text[j])})
        trail == Cardinality({i \in 1..n : \A j \in i..n : IsSpace(text[j])})
    IN  IF lead = n THEN <<>> ELSE SubSeq(text, lead + 1, n - trail)

\* re.sub of the thirteen stop-word characters by ''
RemoveStopWords(text) == SelectSeq(text, LAMBDA c : c \notin StopWords)

\* preprocess_text with the threshold test written >= instead of >
preprocess_text_ge(text) ==
    LET t1 == RemovePunctuation(text)
        t2 == Strip(CollapseWhitespace(t1))
    IN  IF Len(t2) >= STOPWORD_THRESHOLD THEN RemoveStopWords(t2) ELSE t2

\* preprocess_text with the stop words removed whatever the length
preprocess_text_always(text) ==
    LET t1 == RemovePunctuation(text)
        t2 == Strip(CollapseWhitespace(t1))
    IN  RemoveStopWords(t2)

preprocess_text(text) ==
    LET t1 == RemovePunctuation(text)
        t2 == Strip(CollapseWhitespace(t1))
    IN  IF Len(t2) > STOPWORD_THRESHOLD THEN RemoveStopWords(t2) ELSE t2

(***************************************************************************)
(* segment_text                                                            *)
(***************************************************************************)
\* The words of the segmenter's dictionary that are longer than one
\* character: U+6587 U+672C (wen ben, "text").  Every single character is a
\* word of its own.
Lexicon == {<<WEN, BEN>>}
MaxWordLen == 2

\* The characters of jieba's re_han_cut_all, U+4E00 to U+9FD5, and those
\* re_skip_cut_all does not split on
IsHan(c) == c \in 19968..40917
IsEng(c) == c \in 48..57 \/ c \in 65..90 \/ c \in 97..122 \/ c \in {43, 35, 10}

Indices(n) == [i \in 1..n |-> i]

\* __cut_all on a block of Han characters, from position k, old_j being the
\* end of the last word given out: every dictionary word longer than one
\* character that starts at k, or the character at k alone when no such word
\* starts there and none given out before covers it.
RECURSIVE CutAllFrom(_, _, _)
CutAllFrom(block, k, old_j) ==
    IF k > Len(block) THEN <<>>
    ELSE LET ends == SelectSeq(Indices(Len(block)),
                        LAMBDA j : /\ j > k
                                   /\ j < k + MaxWordLen
                                   /\ SubSeq(block, k, j) \in Lexicon)
         IN  IF ends = <<>>
             THEN IF k > old_j
                  THEN <<<<block[k]>>>> \o CutAllFrom(block, k + 1, k)
                  ELSE CutAllFrom(block, k + 1, old_j)
             ELSE [t \in 1..Len(ends) |-> SubSeq(block, k, ends[t])]
                     \o CutAllFrom(block, k + 1, ends[Len(ends)])

\* re_skip_cut_all.split on a block without Han characters: the runs between
\* the characters split on, the empty runs included
SkipSplit(block) ==
    LET n == Len(block)
        seps == <<0>> \o SelectSeq(Indices(n), LAMBDA i : ~IsEng(block[i])) \o <<n + 1>>
    IN  [t \in 1..(Len(seps) - 1) |-> SubSeq(block, seps[t] + 1, seps[t + 1] - 1)]

RECURSIVE CutBlocksFrom(_, _, _)
CutBlocksFrom(text, starts, t) ==
    IF t > Len(starts) THEN <<>>
    ELSE LET last == IF t < Len(starts) THEN starts[t + 1] - 1 ELSE Len(text)
             block == SubSeq(text, starts[t], last)
         IN  (IF IsHan(block[1]) THEN CutAllFrom(block, 1, 0) ELSE SkipSplit(block))
                \o CutBlocksFrom(text, starts, t + 1)

\* jieba.lcut(text, cut_all=True): the text is split into its runs of Han
\* characters and the runs between them, and each is cut on its own.
jieba_lcut(text) ==
    LET starts == SelectSeq(Indices(Len(text)),
                      LAMBDA i : i = 1 \/ IsHan(text[i]) # IsHan(text[i - 1]))
    IN  CutBlocksFrom(text, starts, 1)

\* return [word for word in seg_list if word.strip()]
segment_text(text) ==
    SelectSeq(jieba_lcut(text), LAMBDA word : Strip(word) # <<>>)

(***************************************************************************)
(* calculate_term_frequency, text_to_vector                                *)
(***************************************************************************)
Elements(seq) == {seq[i] : i \in 1..Len(seq)}

\* Counter(words)
calculate_term_frequency(words) ==
    [word \in Elements(words) |-> Cardinality({i \in 1..Len(words) : words[i] = word})]

\* list.index(word): the first place of word in the list
ListIndex(list, word) ==
    CHOOSE i \in 1..Len(list) : list[i] = word /\ \A j \in 1..(i - 1) : list[j] # word

\* text_to_vector recording 1 for a word that occurs, not its count
text_to_vector_presence(words, vocab) ==
    [idx \in 1..Len(vocab) |-> IF vocab[idx] \in Elements(words) THEN 1 ELSE 0]

text_to_vector(words, vocab) ==
    LET word_count == calculate_term_frequency(words)
        at(idx) == {word \in DOMAIN word_count :
                       word \in Elements(vocab) /\ ListIndex(vocab, word) = idx}
    IN  [idx \in 1..Len(vocab) |->
            IF at(idx) = {} THEN 0 ELSE word_count[CHOOSE word \in at(idx) : TRUE]]

(***************************************************************************)
(* calculate_edit_distance_similarity                                      *)
(***************************************************************************)
Min(S) == CHOOSE x \in S : \A y \in S : x <= y
Max2(x, y) == IF x > y THEN x ELSE y

\* One row of the edit-distance table from the row before: row[j + 1] is
\* the distance between the characters of a read so far and the first j of
\* b.  SubSeq makes the row a tuple of numbers.
LevRow(prev, ch, b) ==
    LET m == Len(b)
        base(k) == IF k = 0 THEN prev[1] + 1
                   ELSE Min({prev[k + 1] + 1,
                             prev[k] + (IF b[k] = ch THEN 0 ELSE 1)})
        row == [j \in 1..(m + 1) |-> Min({base(k) + (j - 1 - k) : k \in 0..(j - 1)})]
    IN  SubSeq(row, 1, m + 1)

\* The row after the characters lo..hi of a, halving the range.  The test
\* on the left half's row has it computed before the right half starts.
RECURSIVE LevRows(_, _, _, _, _)
LevRows(a, b, lo, hi, row) ==
    IF lo = hi THEN LevRow(row, a[lo], b)
    ELSE LET mid == (lo + hi) \div 2
             left == LevRows(a, b, lo, mid, row)
         IN  IF Len(left) = Len(b) + 1 THEN LevRows(a, b, mid + 1, hi, left)
             ELSE left

\* Levenshtein.distance(a, b): insertions, deletions and substitutions, each
\* of cost 1.  What the two share at their ends costs nothing and is set
\* aside first.
levenshtein_distance(a, b) ==
    LET n == IF Len(a) < Len(b) THEN Len(a) ELSE Len(b)
        diff == {i \in 1..n : a[i] # b[i]}
        p == IF diff = {} THEN n ELSE Min(diff) - 1
        rdiff == {i \in 1..(n - p) : a[Len(a) + 1 - i] # b[Len(b) + 1 - i]}
        q == IF rdiff = {} THEN n - p ELSE Min(rdiff) - 1
        a2 == SubSeq(a, p + 1, Len(a) - q)
        b2 == SubSeq(b, p + 1, Len(b) - q)
        long == IF Len(a2) < Len(b2) THEN b2 ELSE a2
        short == IF Len(a2) < Len(b2) THEN a2 ELSE b2
    IN  IF short = <<>> THEN Len(long)
        ELSE LevRows(long, short, 1, Len(long), [j \in 1..(Len(short) + 1) |-> j - 1])[Len(short) + 1]

\* calculate_edit_distance_similarity without the "1 -"
calculate_edit_distance_similarity_raw(text1, text2) ==
    LET edit_distance == levenshtein_distance(text1, text2)
        max_length == Max2(Len(text1), Len(text2))
    IN  IF max_length = 0 THEN FOne
        ELSE FDiv(FFromInt(edit_distance), FFromInt(max_length))

calculate_edit_distance_similarity(text1, text2) ==
    LET edit_distance == levenshtein_distance(text1, text2)
        max_length == Max2(Len(text1), Len(text2))
    IN  IF max_length = 0 THEN FOne
        ELSE FSub(FOne, FDiv(FFromInt(edit_distance), FFromInt(max_length)))

(***************************************************************************)
(* calculate_cosine_similarity                                             *)
(***************************************************************************)
\* sum(...) of floats, from the int 0
RECURSIVE FSumFrom(_, _, _)
FSumFrom(xs, i, acc) ==
    IF i > Len(xs) THEN acc ELSE FSumFrom(xs, i + 1, FAdd(acc, xs[i]))

FSum(xs) == FSumFrom(xs, 1, FZero)

calculate_cosine_similarity(vec1, vec2) ==
    LET v1 == [i \in 1..Len(vec1) |-> FFromInt(vec1[i])]
        v2 == [i \in 1..Len(vec2) |-> FFromInt(vec2[i])]
        zipped == IF Len(v1) < Len(v2) THEN Len(v1) ELSE Len(v2)
        dot_product == FSum([i \in 1..zipped |-> FMul(v1[i], v2[i])])
        magnitude1 == FSqrt(FSum([i \in 1..Len(v1) |-> FMul(v1[i], v1[i])]))
        magnitude2 == FSqrt(FSum([i \in 1..Len(v2) |-> FMul(v2[i], v2[i])]))
    IN  IF magnitude1 = FZero \/ magnitude2 = FZero THEN FZero
        ELSE FDiv(dot_product, FMul(magnitude1, magnitude2))

(***************************************************************************)
(* Bounded inputs                                                          *)
(***************************************************************************)
MaxCore == 3
MaxSlack == 1

PreAlphabet == {WEN, DE, SPACE, NEWLINE, FULLWIDTH_COMMA}
FillChars == {WEN, DE}

RECURSIVE SeqsUpTo(_, _)
SeqsUpTo(S, n) ==
    IF n = 0 THEN {<<>>}
    ELSE LET shorter == SeqsUpTo(S, n - 1)
         IN  shorter \cup {Append(s, c) : s \in {t \in shorter : Len(t) = n - 1}, c \in S}

Fill(c, n) == [i \in 1..n |-> c]

\* A short text, or a short text followed by enough copies of one character
\* to bring it to the stop-word threshold.
PreInputs ==
    LET cores == SeqsUpTo(PreAlphabet, MaxCore)
    IN  cores \cup
        {core \o Fill(c, n) :
            core \in cores, c \in FillChars,
            n \in (STOPWORD_THRESHOLD - MaxCore)..(STOPWORD_THRESHOLD + MaxSlack)}

\* The tokens, the token sequences and the vocabularies of text_to_vector
Tokens == {<<WEN>>, <<BEN>>, <<WEN, BEN>>}
MaxWords == 3
MaxVocabulary == 3

\* The texts of calculate_edit_distance_similarity
EditAlphabet == {WEN, BEN, SPACE}
MaxText == 3

\* The vectors of calculate_cosine_similarity
MaxDim == 3
MaxCount == 2

\* The documents of the command-line run: the short ones over three
\* characters, and two of more than 800 characters, one of stop words only
\* and one of stop words with a space after each.
DocAlphabet == {WEN, BEN, FULLWIDTH_COMMA}
MaxDoc == 2
StopWordsDoc == Fill(DE, STOPWORD_THRESHOLD + 1)
SpacedStopWordsDoc ==
    [i \in 1..(2 * (STOPWORD_THRESHOLD \div 2 + 1)) |-> IF i % 2 = 1 THEN DE ELSE SPACE]
Docs == SeqsUpTo(DocAlphabet, MaxDoc) \cup {StopWordsDoc, SpacedStopWordsDoc}
MaxArgv == 5

\* The documents and the weights, in tenths, of a direct call
CallAlphabet == {WEN, BEN}
MaxCallDoc == 2
CallDocs == SeqsUpTo(CallAlphabet, MaxCallDoc)
WeightPairs == {<<7, 3>>, <<5, 5>>, <<15, -5>>, <<10, 10>>}

(***************************************************************************)
(* The functions on their own: each is applied once to an input drawn      *)
(* from a bounded set.                                                     *)
(***************************************************************************)
ProgramIdle ==
    /\ argv_len = 0
    /\ source_file = [exists |-> FALSE, content |-> <<>>]
    /\ check_file = [exists |-> FALSE, content |-> <<>>]
    /\ output_file = [exists |-> FALSE, lines |-> <<>>]
    /\ stdout = <<>>
    /\ exit_code = -1
    /\ caller = "none"
    /\ pc = "idle"
    /\ cosine_weight = FZero
    /\ edit_distance_weight = FZero
    /\ raw_text1 = <<>>
    /\ raw_text2 = <<>>
    /\ processed_text1 = <<>>
    /\ processed_text2 = <<>>
    /\ text1_words = <<>>
    /\ text2_words = <<>>
    /\ vocabulary = <<>>
    /\ vector1 = <<>>
    /\ vector2 = <<>>
    /\ cosine_similarity = FZero
    /\ edit_similarity = FZero
    /\ final_similarity = FZero
    /\ exception = "none"
    /\ calls = <<>>

PreIdle == pt_text = <<>> /\ pt_result = <<>> /\ pt_done = TRUE
VecIdle == tv_words = <<>> /\ tv_vocabulary = <<>> /\ tv_result = <<>> /\ tv_done = TRUE
EditIdle == ed_text1 = <<>> /\ ed_text2 = <<>> /\ ed_result = FOne /\ ed_done = TRUE
CosIdle == cs_vec1 = <<>> /\ cs_vec2 = <<>> /\ cs_result = FZero /\ cs_done = TRUE

\* preprocess_text
InitPre ==
    /\ pt_text \in PreInputs
    /\ pt_result = <<>>
    /\ pt_done = FALSE
    /\ ProgramIdle /\ VecIdle /\ EditIdle /\ CosIdle

PreApply ==
    /\ ~pt_done
    /\ pt_result' = preprocess_text(pt_text)
    /\ pt_done' = TRUE
    /\ UNCHANGED <<pt_text, program_vars, tv_vars, ed_vars, cs_vars>>

SpecPre == InitPre /\ [][PreApply]_vars

\* text_to_vector
InitVec ==
    /\ tv_words \in SeqsUpTo(Tokens, MaxWords)
    /\ tv_vocabulary \in SeqsUpTo(Tokens, MaxVocabulary)
    /\ tv_result = <<>>
    /\ tv_done = FALSE
    /\ ProgramIdle /\ PreIdle /\ EditIdle /\ CosIdle

VecApply ==
    /\ ~tv_done
    /\ tv_result' = text_to_vector(tv_words, tv_vocabulary)
    /\ tv_done' = TRUE
    /\ UNCHANGED <<tv_words, tv_vocabulary, program_vars, pt_vars, ed_vars, cs_vars>>

SpecVec == InitVec /\ [][VecApply]_vars

\* calculate_edit_distance_similarity
InitEdit ==
    /\ ed_text1 \in SeqsUpTo(EditAlphabet, MaxText)
    /\ ed_text2 \in SeqsUpTo(EditAlphabet, MaxText)
    /\ ed_result = FZero
    /\ ed_done = FALSE
    /\ ProgramIdle /\ PreIdle /\ VecIdle /\ CosIdle

EditApply ==
    /\ ~ed_done
    /\ ed_result' = calculate_edit_distance_similarity(ed_text1, ed_text2)
    /\ ed_done' = TRUE
    /\ UNCHANGED <<ed_text1, ed_text2, program_vars, pt_vars, tv_vars, cs_vars>>

SpecEdit == InitEdit /\ [][EditApply]_vars

\* calculate_cosine_similarity, on two vectors of one length
InitCos ==
    /\ \E n \in 0..MaxDim :
          /\ cs_vec1 \in [1..n -> 0..MaxCount]
          /\ cs_vec2 \in [1..n -> 0..MaxCount]
    /\ cs_result = FZero
    /\ cs_done = FALSE
    /\ ProgramIdle /\ PreIdle /\ VecIdle /\ EditIdle

CosApply ==
    /\ ~cs_done
    /\ cs_result' = calculate_cosine_similarity(cs_vec1, cs_vec2)
    /\ cs_done' = TRUE
    /\ UNCHANGED <<cs_vec1, cs_vec2, program_vars, pt_vars, tv_vars, ed_vars>>

SpecCos == InitCos /\ [][CosApply]_vars

(***************************************************************************)
(* calculate_similarity and main, one step at a time                       *)
(***************************************************************************)
NoFile == [exists |-> FALSE, content |-> <<>>]
TextFile(text) == [exists |-> TRUE, content |-> text]

\* The output path before the run: absent, or a file left by an earlier run.
NoOutput == [exists |-> FALSE, lines |-> <<>>]
OldOutput == [exists |-> TRUE, lines |-> <<<<"old">>>>]

\* sys.argv[1], sys.argv[2]
source_file_path == "orig.txt"
check_file_path == "orig_add.txt"

\* The default weights, 0.7 and 0.3
DEFAULT_COSINE_WEIGHT == FDiv(FFromInt(7), FFromInt(10))
DEFAULT_EDIT_DISTANCE_WEIGHT == FDiv(FFromInt(3), FFromInt(10))

\* list(set(...)): the elements in an order of the interpreter's choosing
Orderings(S) ==
    {order \in [1..Cardinality(S) -> S] :
        \A i, j \in 1..Cardinality(S) : order[i] = order[j] => i = j}

\* "not processed_text1 or not processed_text2" with "and" for "or"
IsEmptyInput_both(text1, text2) == text1 = <<>> /\ text2 = <<>>

\* not processed_text1 or not processed_text2
IsEmptyInput(text1, text2) == text1 = <<>> \/ text2 = <<>>

\* The weighted sum with the two weights exchanged
weighted_similarity_swapped(cw, cosine, ew, edit) ==
    FAdd(FMul(ew, cosine), FMul(cw, edit))

\* (cosine_weight * cosine_similarity) + (edit_distance_weight * edit_similarity)
weighted_similarity(cw, cosine, ew, edit) ==
    FAdd(FMul(cw, cosine), FMul(ew, edit))

\* The three lines main writes to the output file
OutputLines(score) ==
    <<<<"source", source_file_path>>,
      <<"check", check_file_path>>,
      <<"similarity", FFormat(score, 4)>>>>

\* main: the argument count
MainArgs ==
    /\ pc = "main"
    /\ \/ /\ argv_len # 4
          /\ stdout' = Append(stdout, <<"usage">>)
          /\ exit_code' = 1
          /\ pc' = "exit"
       \/ /\ argv_len = 4
          /\ pc' = "read1"
          /\ UNCHANGED <<stdout, exit_code>>
    /\ UNCHANGED <<argv_len, source_file, check_file, output_file, caller,
                   cosine_weight, edit_distance_weight, local_vars, flow_vars>>

\* raw_text1 = read_file(file_path1)
ReadFile1 ==
    /\ pc = "read1"
    /\ calls' = Append(calls, "read_file")
    /\ \/ /\ source_file.exists
          /\ raw_text1' = source_file.content
          /\ pc' = "read2"
          /\ UNCHANGED exception
       \/ /\ ~source_file.exists
          /\ exception' = "FileNotFoundError"
          /\ pc' = "raise"
          /\ UNCHANGED raw_text1
    /\ UNCHANGED <<env_vars, caller, cosine_weight, edit_distance_weight,
                   raw_text2, processed_text1, processed_text2, text1_words,
                   text2_words, vocabulary, vector1, vector2,
                   cosine_similarity, edit_similarity, final_similarity>>

\* raw_text2 = read_file(file_path2)
ReadFile2 ==
    /\ pc = "read2"
    /\ calls' = Append(calls, "read_file")
    /\ \/ /\ check_file.exists
          /\ raw_text2' = check_file.content
          /\ pc' = "preprocess"
          /\ UNCHANGED exception
       \/ /\ ~check_file.exists
          /\ exception' = "FileNotFoundError"
          /\ pc' = "raise"
          /\ UNCHANGED raw_text2
    /\ UNCHANGED <<env_vars, caller, cosine_weight, edit_distance_weight,
                   raw_text1, processed_text1, processed_text2, text1_words,
                   text2_words, vocabulary, vector1, vector2,
                   cosine_similarity, edit_similarity, final_similarity>>

\* processed_text1, processed_text2 = preprocess_text(...)
Preprocess ==
    /\ pc = "preprocess"
    /\ processed_text1' = preprocess_text(raw_text1)
    /\ processed_text2' = preprocess_text(raw_text2)
    /\ calls' = calls \o <<"preprocess_text", "preprocess_text">>
    /\ pc' = "check"
    /\ UNCHANGED <<env_vars, caller, cosine_weight, edit_distance_weight,
                   raw_text1, raw_text2, text1_words, text2_words, vocabulary,
                   vector1, vector2, cosine_similarity, edit_similarity,
                   final_similarity, exception>>

\* if not processed_text1 or not processed_text2: raise ValueError
CheckEmpty ==
    /\ pc = "check"
    /\ \/ /\ IsEmptyInput(processed_text1, processed_text2)
          /\ exception' = "ValueError"
          /\ pc' = "raise"
       \/ /\ ~IsEmptyInput(processed_text1, processed_text2)
          /\ pc' = "segment"
          /\ UNCHANGED exception
    /\ UNCHANGED <<env_vars, caller, cosine_weight, edit_distance_weight,
                   local_vars, calls>>

\* text1_words, text2_words = segment_text(...)
Segment ==
    /\ pc = "segment"
    /\ text1_words' = segment_text(processed_text1)
    /\ text2_words' = segment_text(processed_text2)
    /\ calls' = calls \o <<"segment_text", "segment_text">>
    /\ pc' = "vocabulary"
    /\ UNCHANGED <<env_vars, caller, cosine_weight, edit_distance_weight,
                   raw_text1, raw_text2, processed_text1, processed_text2,
                   vocabulary, vector1, vector2, cosine_similarity,
                   edit_similarity, final_similarity, exception>>

\* vocabulary = list(set(text1_words + text2_words))
BuildVocabulary ==
    /\ pc = "vocabulary"
    /\ vocabulary' \in Orderings(Elements(text1_words \o text2_words))
    /\ pc' = "vectors"
    /\ UNCHANGED <<env_vars, caller, cosine_weight, edit_distance_weight,
                   raw_text1, raw_text2, processed_text1, processed_text2,
                   text1_words, text2_words, vector1, vector2,
                   cosine_similarity, edit_similarity, final_similarity,
                   flow_vars>>

\* vector1, vector2 = text_to_vector(..., vocabulary)
Vectorize ==
    /\ pc = "vectors"
    /\ vector1' = text_to_vector(text1_words, vocabulary)
    /\ vector2' = text_to_vector(text2_words, vocabulary)
    /\ calls' = calls \o <<"text_to_vector", "text_to_vector">>
    /\ pc' = "cosine"
    /\ UNCHANGED <<env_vars, caller, cosine_weight, edit_distance_weight,
                   raw_text1, raw_text2, processed_text1, processed_text2,
                   text1_words, text2_words, vocabulary, cosine_similarity,
                   edit_similarity, final_similarity, exception>>

\* cosine_similarity = calculate_cosine_similarity(vector1, vector2); print
Cosine ==
    /\ pc = "cosine"
    /\ cosine_similarity' = calculate_cosine_similarity(vector1, vector2)
    /\ stdout' = Append(stdout, <<"cosine", FFormat(cosine_similarity', 4)>>)
    /\ calls' = Append(calls, "calculate_cosine_similarity")
    /\ pc' = "edit"
    /\ UNCHANGED <<argv_len, source_file, check_file, output_file, exit_code,
                   caller, cosine_weight, edit_distance_weight, raw_text1,
                   raw_text2, processed_text1, processed_text2, text1_words,
                   text2_words, vocabulary, vector1, vector2, edit_similarity,
                   final_similarity, exception>>

\* edit_similarity = calculate_edit_distance_similarity(...); print
EditDistance ==
    /\ pc = "edit"
    /\ edit_similarity' =
          calculate_edit_distance_similarity(processed_text1, processed_text2)
    /\ stdout' = Append(stdout, <<"edit", FFormat(edit_similarity', 4)>>)
    /\ calls' = Append(calls, "calculate_edit_distance_similarity")
    /\ pc' = "combine"
    /\ UNCHANGED <<argv_len, source_file, check_file, output_file, exit_code,
                   caller, cosine_weight, edit_distance_weight, raw_text1,
                   raw_text2, processed_text1, processed_text2, text1_words,
                   text2_words, vocabulary, vector1, vector2,
                   cosine_similarity, final_similarity, exception>>

\* final_similarity = ...; return final_similarity
Combine ==
    /\ pc = "combine"
    /\ final_similarity' =
          weighted_similarity(cosine_weight, cosine_similarity,
                              edit_distance_weight, edit_similarity)
    /\ pc' = "return"
    /\ UNCHANGED <<env_vars, caller, cosine_weight, edit_distance_weight,
                   raw_text1, raw_text2, processed_text1, processed_text2,
                   text1_words, text2_words, vocabulary, vector1, vector2,
                   cosine_similarity, edit_similarity, flow_vars>>

\* main's except clause with sys.exit(0)
MainExcept_exit0 ==
    /\ pc = "raise"
    /\ caller = "main"
    /\ stdout' = Append(stdout, <<"error", exception>>)
    /\ exit_code' = 0
    /\ pc' = "exit"
    /\ UNCHANGED <<argv_len, source_file, check_file, output_file, caller,
                   cosine_weight, edit_distance_weight, local_vars, flow_vars>>

\* main, after calculate_similarity has returned: print the score, open the
\* output file and write the three lines.  open() may fail.
MainWrite ==
    /\ pc = "return"
    /\ caller = "main"
    /\ stdout' = Append(stdout, <<"result", FFormat(final_similarity, 2)>>)
    /\ \/ /\ output_file' = [exists |-> TRUE, lines |-> OutputLines(final_similarity)]
          /\ exit_code' = 0
          /\ pc' = "exit"
          /\ UNCHANGED exception
       \/ /\ exception' = "OSError"
          /\ pc' = "raise"
          /\ UNCHANGED <<output_file, exit_code>>
    /\ UNCHANGED <<argv_len, source_file, check_file, caller, cosine_weight,
                   edit_distance_weight, local_vars, calls>>

\* main: except Exception: print the diagnostic; sys.exit(1)
MainExcept ==
    /\ pc = "raise"
    /\ caller = "main"
    /\ stdout' = Append(stdout, <<"error", exception>>)
    /\ exit_code' = 1
    /\ pc' = "exit"
    /\ UNCHANGED <<argv_len, source_file, check_file, output_file, caller,
                   cosine_weight, edit_distance_weight, local_vars, flow_vars>>

FunctionsIdle == PreIdle /\ VecIdle /\ EditIdle /\ CosIdle
functions_vars == <<pt_vars, tv_vars, ed_vars, cs_vars>>

LocalsUnset ==
    /\ raw_text1 = <<>>
    /\ raw_text2 = <<>>
    /\ processed_text1 = <<>>
    /\ processed_text2 = <<>>
    /\ text1_words = <<>>
    /\ text2_words = <<>>
    /\ vocabulary = <<>>
    /\ vector1 = <<>>
    /\ vector2 = <<>>
    /\ cosine_similarity = FZero
    /\ edit_similarity = FZero
    /\ final_similarity = FZero
    /\ exception = "none"
    /\ calls = <<>>

\* The program run from the command line
Init ==
    /\ argv_len \in 1..MaxArgv
    /\ source_file \in {NoFile} \cup {TextFile(doc) : doc \in Docs}
    /\ check_file \in {NoFile} \cup {TextFile(doc) : doc \in Docs}
    /\ output_file \in {NoOutput, OldOutput}
    /\ stdout = <<>>
    /\ exit_code = -1
    /\ caller = "main"
    /\ pc = "main"
    /\ cosine_weight = DEFAULT_COSINE_WEIGHT
    /\ edit_distance_weight = DEFAULT_EDIT_DISTANCE_WEIGHT
    /\ LocalsUnset
    /\ FunctionsIdle

CalculateSimilarity ==
    \/ ReadFile1
    \/ ReadFile2
    \/ Preprocess
    \/ CheckEmpty
    \/ Segment
    \/ BuildVocabulary
    \/ Vectorize
    \/ Cosine
    \/ EditDistance
    \/ Combine

Next ==
    \/ MainArgs /\ UNCHANGED functions_vars
    \/ CalculateSimilarity /\ UNCHANGED functions_vars
    \/ MainWrite /\ UNCHANGED functions_vars
    \/ MainExcept /\ UNCHANGED functions_vars

Spec == Init /\ [][Next]_vars

\* calculate_similarity called directly, as the tests do, with weights of
\* the caller's choosing
InitCall ==
    /\ argv_len = 0
    /\ source_file \in {NoFile} \cup {TextFile(doc) : doc \in CallDocs}
    /\ check_file \in {NoFile} \cup {TextFile(doc) : doc \in CallDocs}
    /\ output_file = NoOutput
    /\ stdout = <<>>
    /\ exit_code = -1
    /\ caller = "test"
    /\ pc = "read1"
    /\ \E w \in WeightPairs :
          /\ cosine_weight = FDiv(FFromInt(w[1]), FFromInt(10))
          /\ edit_distance_weight = FDiv(FFromInt(w[2]), FFromInt(10))
    /\ LocalsUnset
    /\ FunctionsIdle

NextCall == CalculateSimilarity /\ UNCHANGED functions_vars

SpecCall == InitCall /\ [][NextCall]_vars

(***************************************************************************)
(* Properties of preprocess_text                                           *)
(***************************************************************************)
HasStopWord(text) == \E i \in 1..Len(text) : text[i] \in StopWords

\* No punctuation, no whitespace but single spaces, none of them at an end.
IsClean(text) ==
    /\ \A i \in 1..Len(text) : IsWord(text[i]) \/ IsSpace(text[i])
    /\ \A i \in 1..Len(text) : IsSpace(text[i]) =>
          /\ text[i] = SPACE
          /\ i > 1 /\ ~IsSpace(text[i - 1])
          /\ i < Len(text)

\* The text after the first two steps, before any stop word is removed.
Collapsed(text) == Strip(CollapseWhitespace(RemovePunctuation(text)))

\* C3: the output of preprocess_text holds no punctuation, no run of
\* whitespace longer than one space and no leading or trailing whitespace.
C3_OutputIsClean == pt_done => IsClean(pt_result)

\* C7: stop words are removed exactly when the text, after punctuation
\* removal, whitespace collapsing and trimming, is longer than 800: up to
\* 800 every character of it is kept, above 800 exactly the stop words go,
\* and a text of more than 800 stop words becomes the empty text.
C7_StopWordsIffLong ==
    pt_done =>
        LET t == Collapsed(pt_text)
        IN  /\ Len(t) <= 800 => pt_result = t
            /\ Len(t) > 800 =>
                  /\ ~HasStopWord(pt_result)
                  /\ pt_result = SelectSeq(t, LAMBDA c : c \notin StopWords)
            /\ (Len(pt_text) > 800 /\ \A i \in 1..Len(pt_text) : pt_text[i] \in StopWords)
                  => pt_result = <<>>

C7_Witness ==
    /\ pt_done
    /\ Len(Collapsed(pt_text)) = 801
    /\ HasStopWord(pt_text)
    /\ \E i \in 1..Len(pt_text) : pt_text[i] \notin StopWords
    /\ Len(pt_result) < 801

\* C9: a text with no punctuation, only single spaces, none at an end, and
\* no stop word if it is longer than 800, is left as it is.
IsNormalized(text) ==
    /\ IsClean(text)
    /\ Len(text) > 800 => ~HasStopWord(text)

C9_NormalizedIsFixedPoint == (pt_done /\ IsNormalized(pt_text)) => pt_result = pt_text

C9_Witness ==
    /\ pt_done
    /\ IsNormalized(pt_text)
    /\ Len(pt_text) > 800
    /\ \E i \in 1..Len(pt_text) : pt_text[i] = SPACE
    /\ pt_result = pt_text

(***************************************************************************)
(* Properties of text_to_vector                                            *)
(***************************************************************************)
NoDuplicates(list) ==
    \A i, j \in 1..Len(list) : list[i] = list[j] => i = j

Occurrences(words, word) == Len(SelectSeq(words, LAMBDA w : w = word))

RECURSIVE SumFrom(_, _)
SumFrom(vector, i) ==
    IF i > Len(vector) THEN 0 ELSE vector[i] + SumFrom(vector, i + 1)

\* C6: over a duplicate-free vocabulary, text_to_vector returns a vector as
\* long as the vocabulary whose i-th entry is the number of occurrences of
\* the i-th vocabulary token in the token sequence; tokens outside the
\* vocabulary are ignored; and when every token is in the vocabulary the
\* entries sum to the length of the token sequence.
C6_VectorCountsTokens ==
    (tv_done /\ NoDuplicates(tv_vocabulary)) =>
        /\ Len(tv_result) = Len(tv_vocabulary)
        /\ \A i \in 1..Len(tv_vocabulary) :
              tv_result[i] = Occurrences(tv_words, tv_vocabulary[i])
        /\ Elements(tv_words) \subseteq Elements(tv_vocabulary)
              => SumFrom(tv_result, 1) = Len(tv_words)

C6_Witness ==
    /\ tv_done
    /\ NoDuplicates(tv_vocabulary)
    /\ \E i \in 1..Len(tv_words) : tv_words[i] \notin Elements(tv_vocabulary)
    /\ \E i \in 1..Len(tv_result) : tv_result[i] = 2
    /\ \E i \in 1..Len(tv_result) : tv_result[i] = 0

(***************************************************************************)
(* Properties of calculate_edit_distance_similarity                        *)
(***************************************************************************)
\* C4: the edit similarity is 1.0 for two empty texts and otherwise
\* 1 - distance / (the longer length); it lies in [0, 1], is 1.0 for equal
\* texts and 0.0 when exactly one text is empty.
C4_EditSimilarity ==
    ed_done =>
        LET longer == Max2(Len(ed_text1), Len(ed_text2))
        IN  /\ longer = 0 => ed_result = FOne
            /\ longer > 0 =>
                  ed_result = FSub(FOne, FDiv(FFromInt(levenshtein_distance(ed_text1, ed_text2)),
                                              FFromInt(longer)))
            /\ levenshtein_distance(ed_text1, ed_text2) <= longer
            /\ FLeq(FZero, ed_result) /\ FLeq(ed_result, FOne)
            /\ ed_text1 = ed_text2 => ed_result = FOne
            /\ (ed_text1 = <<>>) # (ed_text2 = <<>>) => ed_result = FZero

C4_Witness ==
    /\ ed_done
    /\ ed_text1 # <<>> /\ ed_text2 # <<>> /\ Len(ed_text1) # Len(ed_text2)
    /\ FLess(FZero, ed_result) /\ FLess(ed_result, FOne)

(***************************************************************************)
(* Properties of calculate_cosine_similarity                               *)
(***************************************************************************)
IsZeroVector(vector) == \A i \in 1..Len(vector) : vector[i] = 0

\* C5: on two vectors of counts of one length, the cosine similarity is 0.0
\* when either is all zeros, and otherwise lies in [0, 1] and is 1.0 when
\* the two vectors are equal.
C5_CosineSimilarity ==
    cs_done =>
        /\ (IsZeroVector(cs_vec1) \/ IsZeroVector(cs_vec2)) => cs_result = FZero
        /\ FLeq(FZero, cs_result) /\ FLeq(cs_result, FOne)
        /\ (cs_vec1 = cs_vec2 /\ ~IsZeroVector(cs_vec1)) => cs_result = FOne

(***************************************************************************)
(* Properties of calculate_similarity                                      *)
(***************************************************************************)
BothPreprocessed == Occurrences(calls, "preprocess_text") = 2 /\ pc # "check"

Printed(kind) == \E i \in 1..Len(stdout) : stdout[i][1] = kind

\* C1: once both texts are normalized, if either is empty the call has
\* raised ValueError: no score is returned or printed, and nothing beyond
\* the two reads and the two normalizations has been called.  ValueError is
\* raised in no other case.
C1_EmptyInputRaises ==
    /\ (BothPreprocessed /\ (processed_text1 = <<>> \/ processed_text2 = <<>>)) =>
          /\ exception = "ValueError"
          /\ pc \in {"raise", "exit"}
          /\ calls = <<"read_file", "read_file", "preprocess_text", "preprocess_text">>
          /\ text1_words = <<>> /\ text2_words = <<>> /\ vocabulary = <<>>
          /\ vector1 = <<>> /\ vector2 = <<>>
          /\ final_similarity = FZero
          /\ ~Printed("cosine") /\ ~Printed("edit") /\ ~Printed("result")
    /\ exception = "ValueError" =>
          BothPreprocessed /\ (processed_text1 = <<>> \/ processed_text2 = <<>>)

C1_Witness ==
    /\ exception = "ValueError"
    /\ processed_text1 # <<>>
    /\ raw_text2 # <<>> /\ processed_text2 = <<>>

POINT_95 == FDiv(FFromInt(95), FFromInt(100))

\* C2: when calculate_similarity returns for two files of identical content,
\* the score is greater than 0.95.
C2_IdenticalFilesScoreHigh ==
    (pc = "return" /\ source_file.content = check_file.content) =>
        FLess(POINT_95, final_similarity)

InUnit(x) == FLeq(FZero, x) /\ FLeq(x, FOne)

ReturnsWeightedSum ==
    /\ NoDuplicates(vocabulary)
    /\ Elements(vocabulary) = Elements(text1_words) \cup Elements(text2_words)
    /\ vector1 = text_to_vector(text1_words, vocabulary)
    /\ vector2 = text_to_vector(text2_words, vocabulary)
    /\ cosine_similarity = calculate_cosine_similarity(vector1, vector2)
    /\ edit_similarity =
          calculate_edit_distance_similarity(processed_text1, processed_text2)
    /\ final_similarity = FAdd(FMul(cosine_weight, cosine_similarity),
                               FMul(edit_distance_weight, edit_similarity))

\* C10 as stated: the returned value is cosine_weight * cosine +
\* edit_distance_weight * edit, and it lies in [0, 1] when both sub-scores do
\* and the weights sum to 1.
C10_WeightedSumInUnit ==
    pc = "return" =>
        /\ ReturnsWeightedSum
        /\ (/\ InUnit(cosine_similarity)
            /\ InUnit(edit_similarity)
            /\ FAdd(cosine_weight, edit_distance_weight) = FOne)
              => InUnit(final_similarity)

\* C10 amended: the returned value is cosine_weight * cosine +
\* edit_distance_weight * edit, and it lies in [0, 1] when both sub-scores do
\* and the weights are non-negative and sum to 1.
C10_WeightedSumInUnitNonNegative ==
    pc = "return" =>
        /\ ReturnsWeightedSum
        /\ (/\ InUnit(cosine_similarity)
            /\ InUnit(edit_similarity)
            /\ FLeq(FZero, cosine_weight)
            /\ FLeq(FZero, edit_distance_weight)
            /\ FAdd(cosine_weight, edit_distance_weight) = FOne)
              => InUnit(final_similarity)

C10_Witness ==
    /\ pc = "return"
    /\ FLess(FZero, cosine_weight) /\ FLess(FZero, edit_distance_weight)
    /\ cosine_weight # edit_distance_weight
    /\ FAdd(cosine_weight, edit_distance_weight) = FOne
    /\ InUnit(cosine_similarity) /\ InUnit(edit_similarity)
    /\ cosine_similarity # edit_similarity
    /\ FLess(FZero, final_similarity) /\ FLess(final_similarity, FOne)

(***************************************************************************)
(* Properties of main                                                      *)
(***************************************************************************)
PipelineCalls ==
    <<"read_file", "read_file", "preprocess_text", "preprocess_text",
      "segment_text", "segment_text", "text_to_vector", "text_to_vector",
      "calculate_cosine_similarity", "calculate_edit_distance_similarity">>

\* C8: main exits with code 1 with the usage message when the argument count
\* is not 4 (the program name and three paths), and with code 1 after a
\* diagnostic when an exception was raised; the output file changes only in
\* the step after calculate_similarity has returned, and then holds the two
\* paths and the score to 4 decimals in place of what it held.
C8_ExitCodesAndOutputFile ==
    [][/\ pc' = "exit" =>
             /\ argv_len # 4 =>
                   /\ exit_code' = 1
                   /\ stdout' = <<<<"usage">>>>
                   /\ calls' = <<>>
                   /\ output_file' = output_file
             /\ exception' # "none" =>
                   /\ exit_code' = 1
                   /\ stdout'[Len(stdout')] = <<"error", exception'>>
                   /\ output_file' = output_file
             /\ (argv_len = 4 /\ exception' = "none") =>
                   /\ exit_code' = 0
                   /\ output_file' # output_file
       /\ output_file' # output_file =>
             /\ pc = "return" /\ pc' = "exit"
             /\ calls = PipelineCalls
             /\ exception = "none"
             /\ output_file' = [exists |-> TRUE,
                                lines |-> <<<<"source", source_file_path>>,
                                            <<"check", check_file_path>>,
                                            <<"similarity", FFormat(final_similarity, 4)>>>>]
      ]_vars

C8_Witness ==
    /\ pc = "exit"
    /\ exception = "ValueError"
    /\ exit_code = 1
    /\ output_file = OldOutput

====
